---- MODULE Spec2Model ----
(***************************************************************************)
(* Model of the reconciliations CLI (src/cli.py) and of the library it     *)
(* drives (src/reconciliations/api.py, src/reconciliations/writer.py).     *)
(*                                                                         *)
(* Conventions                                                             *)
(*  - Text is a TLA+ string; str.lower() and str.strip() are the tables    *)
(*    LowerTable and StripTable over the finite vocabulary of the model.   *)
(*  - A float is a record [kind, val]: kind "fin" with val an integer      *)
(*    number of thousandths, or one of the non-finite values NaN, PosInf,  *)
(*    NegInf.  Sums are exact: binary rounding noise is not modelled.      *)
(*  - None is the string NoneVal, which no input can spell.                *)
(*  - cli.py passes the recurring mapping to BudgetSheetConfig under the   *)
(*    name recurring_expectations and reads it back under that name, while *)
(*    api.py declares and reads the field recurring_expenses.  The model   *)
(*    has the one mapping, named as api.py names it.                       *)
(***************************************************************************)
EXTENDS Integers, Sequences, FiniteSets, TLC

VARIABLES
    pc,                 \* position of the run
    yes,                \* --yes flag (cli.py:194-199)
    raw_config,         \* parsed JSON of --config, or NoConfig
    csv_files,          \* the CSV files on the command line, as rows of raw cells
    config,             \* BudgetSheetConfig: categories, recurring_expenses
    expenses,           \* session.expenses
    idx,                \* loop index of _interactive_classification / populate
    rejected,           \* inputs _prompt_category refused for the current record
    replies,            \* the user's replies to click.confirm in _check_recurring_expectations
    report,             \* last RecurringCheckResult
    sections,           \* last result of _sectioned_expenses
    verdict,            \* last value returned by a validation function
    workbook,           \* BudgetSheetWriter.workbook: handle, sheet cells, counters
    file,               \* the target workbook file on disk
    entry,              \* "cli" for a run of cli(), "api" for a caller of the library
    history             \* steps of cli() completed so far

vars == <<pc, yes, raw_config, csv_files, config, expenses, idx, rejected,
          replies, report, sections, verdict, workbook, file, entry, history>>

----------------------------------------------------------------------------
(* Bounds *)

MaxRecords == 2
MaxApiRecords == 2
MaxRetries == 1

----------------------------------------------------------------------------
(* Text *)

NoneVal == "<None>"

LowerTable ==
    [s \in {"Income", "INCOME", "income"} |-> "income"]
    @@ [s \in {"Miscellaneous", "miscellaneous"} |-> "miscellaneous"]
    @@ [s \in {"Payment", "payment", "PAYMENT"} |-> "payment"]
    @@ [s \in {"Recurring", "recurring"} |-> "recurring"]
    @@ [s \in {"Groceries", "groceries"} |-> "groceries"]
    @@ [s \in {"Food", "food"} |-> "food"]
    @@ [s \in {"Rent", "rent", "RENT"} |-> "rent"]
    @@ [s \in {"Gym", "gym"} |-> "gym"]
    @@ [s \in {"Netflix", "netflix"} |-> "netflix"]
    @@ [s \in {"Invalid", "invalid"} |-> "invalid"]

Lower(s) == IF s \in DOMAIN LowerTable THEN LowerTable[s] ELSE s

StripTable ==
    (" Food " :> "Food") @@ ("   " :> "") @@ (" Rent " :> "Rent")
    @@ (" payment " :> "payment") @@ (" Recurring " :> "Recurring")

Strip(s) == IF s \in DOMAIN StripTable THEN StripTable[s] ELSE s

----------------------------------------------------------------------------
(* Floats *)

Fin(n) == [kind |-> "fin", val |-> n]
NaN == [kind |-> "nan", val |-> 0]
PosInf == [kind |-> "inf", val |-> 1]
NegInf == [kind |-> "inf", val |-> -1]

IsFinite(a) == a.kind = "fin"

\* a + b
FAdd(a, b) ==
    IF a.kind = "nan" \/ b.kind = "nan" THEN NaN
    ELSE IF a.kind = "inf" /\ b.kind = "inf" THEN (IF a.val = b.val THEN a ELSE NaN)
    ELSE IF a.kind = "inf" THEN a
    ELSE IF b.kind = "inf" THEN b
    ELSE Fin(a.val + b.val)

\* -a
FNeg(a) == IF a.kind = "nan" THEN NaN ELSE [kind |-> a.kind, val |-> 0 - a.val]

\* a - b
FSub(a, b) == FAdd(a, FNeg(b))

\* a > b : every comparison with NaN is false
FGt(a, b) ==
    /\ a.kind # "nan"
    /\ b.kind # "nan"
    /\ IF a.kind = "inf" THEN a.val = 1 /\ b # PosInf
       ELSE IF b.kind = "inf" THEN b.val = -1
       ELSE a.val > b.val

\* a >= b
FGe(a, b) == a.kind # "nan" /\ b.kind # "nan" /\ (a = b \/ FGt(a, b))

\* a < b
FLt(a, b) == FGt(b, a)

----------------------------------------------------------------------------
(* _parse_amount and _parse_date (api.py:87-106).  A raw amount is the     *)
(* sequence of its characters; the alphabet of the model is the digits and *)
(* . , - + ( ) and the letters of the non-finite spellings, plus x.        *)

Digits == {"0", "1", "2", "3", "4", "5", "6", "7", "8", "9"}

DigitVal ==
    ("0" :> 0) @@ ("1" :> 1) @@ ("2" :> 2) @@ ("3" :> 3) @@ ("4" :> 4)
    @@ ("5" :> 5) @@ ("6" :> 6) @@ ("7" :> 7) @@ ("8" :> 8) @@ ("9" :> 9)

RECURSIVE NatOf(_)
NatOf(s) == IF s = <<>> THEN 0 ELSE NatOf(SubSeq(s, 1, Len(s) - 1)) * 10 + DigitVal[s[Len(s)]]

AllDigits(s) == \A i \in 1..Len(s) : s[i] \in Digits

\* str.replace(c, "")
RECURSIVE RemoveChar(_, _)
RemoveChar(s, c) ==
    IF s = <<>> THEN <<>>
    ELSE IF Head(s) = c THEN RemoveChar(Tail(s), c)
    ELSE <<Head(s)>> \o RemoveChar(Tail(s), c)

LowerChar(c) ==
    IF c = "I" THEN "i" ELSE IF c = "N" THEN "n" ELSE IF c = "F" THEN "f"
    ELSE IF c = "A" THEN "a" ELSE c

LowerChars(s) == [i \in 1..Len(s) |-> LowerChar(s[i])]

\* the digits after the decimal point, as thousandths
FracOf(s) ==
    IF Len(s) = 0 THEN 0
    ELSE IF Len(s) = 1 THEN NatOf(s) * 100
    ELSE IF Len(s) = 2 THEN NatOf(s) * 10
    ELSE NatOf(SubSeq(s, 1, 3))

\* float() of an unsigned decimal literal
UnsignedDecimal(s) ==
    LET dots == {i \in 1..Len(s) : s[i] = "."} IN
    IF dots = {} THEN
        IF Len(s) > 0 /\ AllDigits(s)
        THEN [ok |-> TRUE, val |-> Fin(NatOf(s) * 1000)]
        ELSE [ok |-> FALSE, val |-> NaN]
    ELSE IF Cardinality(dots) > 1 THEN [ok |-> FALSE, val |-> NaN]
    ELSE
        LET p == CHOOSE i \in dots : TRUE
            ip == SubSeq(s, 1, p - 1)
            fp == SubSeq(s, p + 1, Len(s))
        IN  IF AllDigits(ip) /\ AllDigits(fp) /\ Len(ip) + Len(fp) > 0
            THEN [ok |-> TRUE, val |-> Fin(NatOf(ip) * 1000 + FracOf(fp))]
            ELSE [ok |-> FALSE, val |-> NaN]

\* float() of an unsigned literal: a decimal, or a non-finite spelling
UnsignedFloat(s) ==
    LET l == LowerChars(s) IN
    IF l = <<"n", "a", "n">> THEN [ok |-> TRUE, val |-> NaN]
    ELSE IF l = <<"i", "n", "f">> \/ l = <<"i", "n", "f", "i", "n", "i", "t", "y">>
         THEN [ok |-> TRUE, val |-> PosInf]
    ELSE UnsignedDecimal(s)

\* float(s): ok = FALSE stands for ValueError
PyFloat(s) ==
    IF s # <<>> /\ Head(s) \in {"-", "+"} THEN
        LET r == UnsignedFloat(Tail(s)) IN
        IF r.ok /\ Head(s) = "-" THEN [ok |-> TRUE, val |-> FNeg(r.val)] ELSE r
    ELSE UnsignedFloat(s)

_parse_amount(value) ==
    LET stripped == RemoveChar(value, ",")
        normalized ==
            IF stripped # <<>> /\ Head(stripped) = "(" /\ stripped[Len(stripped)] = ")"
            THEN <<"-">> \o SubSeq(stripped, 2, Len(stripped) - 1)
            ELSE stripped
    IN  PyFloat(normalized)

\* A raw date is its separator and its three numeric fields in order.
IsLeap(y) == (y % 4 = 0 /\ y % 100 # 0) \/ y % 400 = 0

DaysIn(m, y) ==
    IF m = 2 THEN (IF IsLeap(y) THEN 29 ELSE 28)
    ELSE IF m \in {4, 6, 9, 11} THEN 30 ELSE 31

ValidDate(y, m, d) == y \in 1..9999 /\ m \in 1..12 /\ d \in 1..DaysIn(m, y)

\* tries %m/%d/%Y, then %Y-%m-%d; ok = FALSE stands for ValueError
_parse_date(value) ==
    IF value.sep = "/" /\ ValidDate(value.c, value.a, value.b)
    THEN [ok |-> TRUE, val |-> [y |-> value.c, m |-> value.a, d |-> value.b]]
    ELSE IF value.sep = "-" /\ ValidDate(value.a, value.b, value.c)
    THEN [ok |-> TRUE, val |-> [y |-> value.a, m |-> value.b, d |-> value.c]]
    ELSE [ok |-> FALSE, val |-> [y |-> 0, m |-> 0, d |-> 0]]

\* ExpenseRecord as _parse_csv constructs it (api.py:76-83, 24-35)
ExpenseRecord(date, description, amount, source_file) ==
    [date |-> date, description |-> description, amount |-> amount,
     source_file |-> source_file, category |-> NoneVal,
     is_income |-> FALSE, is_misc |-> FALSE, is_payment |-> FALSE,
     recurring_key |-> NoneVal]

\* _parse_csv: ok = FALSE when a row raises; rows are [Date, Description, Amount]
RECURSIVE ParseRows(_, _)
ParseRows(rows, src) ==
    IF rows = <<>> THEN [ok |-> TRUE, records |-> <<>>]
    ELSE
        LET row == Head(rows)
            d == _parse_date(row.Date)
            a == _parse_amount(row.Amount)
            rest == ParseRows(Tail(rows), src)
        IN  IF d.ok /\ a.ok /\ rest.ok
            THEN [ok |-> TRUE,
                  records |-> <<ExpenseRecord(d.val, Strip(row.Description), a.val, src)>> \o rest.records]
            ELSE [ok |-> FALSE, records |-> <<>>]

_parse_csv(files, i) == ParseRows(files[i], i)

\* load_transactions: extends session.expenses file by file until one raises
RECURSIVE LoadFrom(_, _, _)
LoadFrom(files, i, acc) ==
    IF i > Len(files) THEN [ok |-> TRUE, expenses |-> acc]
    ELSE
        LET r == _parse_csv(files, i) IN
        IF r.ok THEN LoadFrom(files, i + 1, acc \o r.records)
        ELSE [ok |-> FALSE, expenses |-> acc]

load_transactions(files, before) == LoadFrom(files, 1, before)

----------------------------------------------------------------------------
(* Configuration (cli.py:16-54, api.py:13-20) *)

RESERVED_CATEGORIES == <<"Income", "Miscellaneous", "Payment">>

Range(f) == {f[i] : i \in DOMAIN f}

EmptyMap == [k \in {} |-> Fin(0)]

\* list comprehension [Strip(x) for x in items if x]
RECURSIVE StripTruthy(_)
StripTruthy(items) ==
    IF items = <<>> THEN <<>>
    ELSE IF Head(items) = "" THEN StripTruthy(Tail(items))
    ELSE <<Strip(Head(items))>> \o StripTruthy(Tail(items))

IsReserved(name) == \E i \in DOMAIN RESERVED_CATEGORIES : Lower(name) = Lower(RESERVED_CATEGORIES[i])

\* float(value) of a JSON value: a number converts, other text raises
JsonFloatOk(v) == v.kind # "text"

\* _load_config: ok = FALSE stands for click.BadParameter
_load_config(raw) ==
    IF ~raw.given THEN [ok |-> TRUE, categories |-> <<>>, recurring |-> EmptyMap]
    ELSE
        LET categories == IF raw.has_categories /\ raw.categories_is_list
                          THEN StripTruthy(raw.categories) ELSE <<>>
            pairs == raw.recurring
            keys == {pairs[i].key : i \in DOMAIN pairs}
            recurring == [k \in keys |->
                            LET i == CHOOSE j \in DOMAIN pairs : pairs[j].key = k
                            IN  [kind |-> pairs[i].value.kind, val |-> pairs[i].value.val]]
        IN
        IF raw.has_categories /\ ~raw.categories_is_list
            THEN [ok |-> FALSE, categories |-> <<>>, recurring |-> EmptyMap]
        ELSE IF \E i \in DOMAIN categories : IsReserved(categories[i])
            THEN [ok |-> FALSE, categories |-> <<>>, recurring |-> EmptyMap]
        ELSE IF raw.has_recurring /\ ~raw.recurring_is_dict
            THEN [ok |-> FALSE, categories |-> <<>>, recurring |-> EmptyMap]
        ELSE IF raw.has_recurring /\ \E i \in DOMAIN pairs : pairs[i].key = "" \/ ~JsonFloatOk(pairs[i].value)
            THEN [ok |-> FALSE, categories |-> <<>>, recurring |-> EmptyMap]
        ELSE [ok |-> TRUE, categories |-> categories,
              recurring |-> IF raw.has_recurring THEN recurring ELSE EmptyMap]

BudgetSheetConfig(categories, recurring) ==
    [categories |-> categories, recurring_expenses |-> recurring]

----------------------------------------------------------------------------
(* Classification (cli.py:93-151, api.py:108-128) *)

\* _input_with_default(prompt, ""): input().strip() or default
_input_with_default(typed) == Strip(typed)

\* the choices list of _prompt_category: each reserved name missing from the
\* configured categories is inserted at the front
RECURSIVE InsertReserved(_, _)
InsertReserved(choices, i) ==
    IF i > Len(RESERVED_CATEGORIES) THEN choices
    ELSE
        LET reserved == RESERVED_CATEGORIES[i] IN
        IF \E j \in DOMAIN choices : Lower(reserved) = Lower(choices[j])
        THEN InsertReserved(choices, i + 1)
        ELSE InsertReserved(<<reserved>> \o choices, i + 1)

Choices(categories) == InsertReserved(categories, 1)

\* next((choice for choice in choices if choice.lower() == candidate.lower()), None)
FirstMatch(choices, candidate) ==
    LET hits == {j \in DOMAIN choices : Lower(choices[j]) = Lower(candidate)} IN
    IF hits = {} THEN NoneVal
    ELSE choices[CHOOSE j \in hits : \A k \in hits : j <= k]

\* the round returning the candidate as typed instead of the match
_prompt_category_ReturnsTyped(categories, typed) ==
    LET match == FirstMatch(Choices(categories), _input_with_default(typed)) IN
    IF match # NoneVal /\ match # "" THEN _input_with_default(typed) ELSE NoneVal

\* one round of the loop of _prompt_category: the match it returns, or
\* NoneVal when the input is refused ("if match" is false for None and "")
_prompt_category(categories, typed) ==
    LET match == FirstMatch(Choices(categories), _input_with_default(typed)) IN
    IF match # NoneVal /\ match # "" THEN match ELSE NoneVal

classify_expense(record, category) == [record EXCEPT !.category = category]

mark_as_income(record) ==
    [record EXCEPT !.is_income = TRUE, !.is_misc = FALSE, !.is_payment = FALSE]

mark_as_miscellaneous(record) == [record EXCEPT !.is_misc = TRUE]

mark_as_payment(record) == [record EXCEPT !.is_payment = TRUE]

\* the flags compared with the category as returned, without lower()
SetCategoryAndFlags_NoLower(record, category) ==
    [classify_expense(record, category) EXCEPT
        !.is_income = (category = "income"),
        !.is_misc = (category = "miscellaneous"),
        !.is_payment = (category = "payment")]

\* cli.py:142-147: the category and the three flags of one record
SetCategoryAndFlags(record, category) ==
    LET normalized == Lower(Strip(category)) IN
    [classify_expense(record, category) EXCEPT
        !.is_income = (normalized = "income"),
        !.is_misc = (normalized = "miscellaneous"),
        !.is_payment = (normalized = "payment")]

\* cli.py:149-151: click.prompt(...).strip(), stored when not empty
SetRecurringKey(record, typed) ==
    LET recurring_key == Strip(typed) IN
    IF recurring_key # "" THEN [record EXCEPT !.recurring_key = recurring_key] ELSE record

----------------------------------------------------------------------------
(* Recurring report and validations (api.py:130-151, cli.py:154-183) *)

Truthy(key) == key # NoneVal /\ key # ""

\* the loop of build_recurring_report over expenses[i..]
RECURSIVE ReportFrom(_, _, _, _)
ReportFrom(exps, i, expected, acc) ==
    IF i > Len(exps) THEN acc
    ELSE
        LET record == exps[i]
            key == record.recurring_key
        IN
        IF ~Truthy(key) \/ key \notin DOMAIN acc.satisfied \/ record.is_payment
        THEN ReportFrom(exps, i + 1, expected, acc)
        ELSE
            LET sat == FAdd(acc.satisfied[key], record.amount) IN
            ReportFrom(exps, i + 1, expected,
                       [satisfied |-> [acc.satisfied EXCEPT ![key] = sat],
                        missing |-> [acc.missing EXCEPT ![key] = FSub(expected[key], sat)]])

\* the report without the is_payment test
build_recurring_report_CountsPayments(exps, expected) ==
    ReportFrom([i \in 1..Len(exps) |-> [exps[i] EXCEPT !.is_payment = FALSE]], 1, expected,
               [satisfied |-> [k \in DOMAIN expected |-> Fin(0)],
                missing |-> [k \in DOMAIN expected |-> expected[k]]])

build_recurring_report(exps, expected) ==
    ReportFrom(exps, 1, expected,
               [satisfied |-> [k \in DOMAIN expected |-> Fin(0)],
                missing |-> [k \in DOMAIN expected |-> expected[k]]])

\* 0.005, in thousandths
Epsilon == Fin(5)

\* the comparison with >= in place of >
Outstanding_AtThreshold(exps, expected) ==
    LET r == build_recurring_report(exps, expected) IN
    {k \in DOMAIN expected : FGe(r.missing[k], Epsilon)}

\* the keys _check_recurring_expectations reports as outstanding
Outstanding(exps, expected) ==
    LET r == build_recurring_report(exps, expected) IN
    {k \in DOMAIN expected : FGt(r.missing[k], Epsilon)}

\* _check_recurring_expectations: asks = whether click.confirm is called,
\* result = the value returned when the user's answer is `answer`
_check_recurring_expectations(exps, expected, answer) ==
    IF DOMAIN expected = {} THEN [asks |-> FALSE, result |-> TRUE]
    ELSE IF Outstanding(exps, expected) = {} THEN [asks |-> FALSE, result |-> TRUE]
    ELSE [asks |-> TRUE, result |-> answer]

\* the issues list of _check_income_flags
IncomeIssues(exps) == {i \in DOMAIN exps : exps[i].is_income /\ FGe(exps[i].amount, Fin(0))}

_check_income_flags(exps) == IncomeIssues(exps) = {}

----------------------------------------------------------------------------
(* Sheet writer (writer.py).  The sheet is the sequence of cell writes made *)
(* on it, each [row, col, v] with zero-based row and col as xlsxwriter      *)
(* counts them; v is the content.                                           *)

ColLetters == <<"A", "B", "C", "D", "E", "F", "G", "H", "I", "J", "K", "L", "M">>

\* xlsxwriter.utility.xl_rowcol_to_cell
xl_rowcol_to_cell(row, col) == [col |-> ColLetters[col + 1], row |-> row + 1]

\* xlsxwriter.utility.xl_cell_to_rowcol, used for every A1-style argument
xl_cell_to_rowcol(cell) ==
    [row |-> cell.row - 1,
     col |-> (CHOOSE i \in DOMAIN ColLetters : ColLetters[i] = cell.col) - 1]

A1(letter, number) == [col |-> letter, row |-> number]

Text(s) == [t |-> "string", s |-> s]
Number(a) == [t |-> "number", n |-> a]
Blank == [t |-> "blank"]
IsoDate(d) == [t |-> "isodate", d |-> d]
\* "=0+a1+a2...": the terms appended to total_income_fn
IncomeFormula(terms) == [t |-> "formula", f |-> "0+", terms |-> terms]
\* "=SUM(first:last)"
SumRange(first, last) == [t |-> "formula", f |-> "SUM:", first |-> first, last |-> last]
\* "=SUM(a,b)"
SumOf(a, b) == [t |-> "formula", f |-> "SUM,", a |-> a, b |-> b]
\* "=a-b"
Minus(a, b) == [t |-> "formula", f |-> "-", a |-> a, b |-> b]

WriteAt(row, col, v) == [row |-> row, col |-> col, v |-> v]

\* worksheet.write_string / write_formula / write with an A1 argument
WriteCell(cell, v) == LET rc == xl_cell_to_rowcol(cell) IN WriteAt(rc.row, rc.col, v)

\* worksheet.merge_range(first:last, text) on one row: the text in the first
\* cell, blanks in the others
merge_range(first, last, s) ==
    LET a == xl_cell_to_rowcol(first)
        b == xl_cell_to_rowcol(last)
    IN  [i \in 1..(b.col - a.col + 1) |->
            WriteAt(a.row, a.col + i - 1, IF i = 1 THEN Text(s) ELSE Blank)]

\* worksheet.write_row(row, col, data)
write_row(row, col, data) == [i \in 1..Len(data) |-> WriteAt(row, col + i - 1, data[i])]

_apply_template ==
    merge_range(A1("B", 3), A1("C", 3), "Net Income")
    \o <<WriteCell(A1("E", 3), Text("Balance")),
         WriteCell(A1("F", 3), Text("Total Spending"))>>
    \o merge_range(A1("B", 6), A1("C", 6), "Recurring Expenses")
    \o merge_range(A1("E", 6), A1("F", 6), "Miscellaneous")
    \o merge_range(A1("I", 3), A1("L", 3), "Purchases")
    \o <<WriteCell(A1("I", 4), Text("Date")),
         WriteCell(A1("J", 4), Text("Category")),
         WriteCell(A1("K", 4), Text("Description")),
         WriteCell(A1("L", 4), Text("Amount"))>>

starting_misc_row == 6
starting_recurring_row == 6
starting_purchases_row == 4
misc_col == 4
recurring_col == 1
purchases_col == 8

ClosedBook ==
    [open |-> FALSE, closed |-> FALSE, sheet |-> <<>>, total_income_fn |-> <<>>,
     misc_row |-> 0, recurring_row |-> 0, purchases_row |-> 0]

\* populate with the Purchases counter starting on the row of the column headers
PopulateStart_OnHeaders ==
    [open |-> TRUE, closed |-> FALSE, sheet |-> _apply_template, total_income_fn |-> <<>>,
     misc_row |-> starting_misc_row, recurring_row |-> starting_recurring_row,
     purchases_row |-> starting_purchases_row - 1]

\* BudgetSheetWriter(path) and populate up to its loop (writer.py:13-14, 49-64)
PopulateStart ==
    [open |-> TRUE, closed |-> FALSE, sheet |-> _apply_template, total_income_fn |-> <<>>,
     misc_row |-> starting_misc_row, recurring_row |-> starting_recurring_row,
     purchases_row |-> starting_purchases_row]

\* the routing with the is_payment test after the is_income test
Route_IncomeFirst(e) ==
    IF e.is_income THEN "income"
    ELSE IF e.is_payment THEN "skip"
    ELSE IF e.is_misc THEN "misc"
    ELSE IF Truthy(e.recurring_key) THEN "recurring"
    ELSE "purchases"

\* the routing with the is_misc test before the is_income test
Route_MiscFirst(e) ==
    IF e.is_payment THEN "skip"
    ELSE IF e.is_misc THEN "misc"
    ELSE IF e.is_income THEN "income"
    ELSE IF Truthy(e.recurring_key) THEN "recurring"
    ELSE "purchases"

\* where one iteration of the loop of populate sends the record e
Route(e) ==
    IF e.is_payment THEN "skip"
    ELSE IF e.is_income THEN "income"
    ELSE IF e.is_misc THEN "misc"
    ELSE IF Truthy(e.recurring_key) THEN "recurring"
    ELSE "purchases"

\* the iteration with the recurring row counter left where it was
PopulateRecord_NoAdvance(wb, e) ==
    LET r == Route(e) IN
    IF r = "skip" THEN wb
    ELSE IF r = "income" THEN
        [wb EXCEPT !.total_income_fn = Append(@, e.amount)]
    ELSE IF r = "misc" THEN
        [wb EXCEPT !.sheet = @ \o write_row(wb.misc_row, misc_col,
                                             <<Text(e.description), Number(e.amount)>>),
                   !.misc_row = @ + 1]
    ELSE IF r = "recurring" THEN
        [wb EXCEPT !.sheet = @ \o write_row(wb.recurring_row, recurring_col,
                                             <<Text(e.recurring_key), Number(e.amount)>>)]
    ELSE
        [wb EXCEPT !.sheet = @ \o write_row(wb.purchases_row, purchases_col,
                                             <<IsoDate(e.date), Text(e.category),
                                               Text(e.description), Number(e.amount)>>),
                   !.purchases_row = @ + 1]

\* one iteration of the loop of populate (writer.py:66-95)
PopulateRecord(wb, e) ==
    LET r == Route(e) IN
    IF r = "skip" THEN wb
    ELSE IF r = "income" THEN
        [wb EXCEPT !.total_income_fn = Append(@, e.amount)]
    ELSE IF r = "misc" THEN
        [wb EXCEPT !.sheet = @ \o write_row(wb.misc_row, misc_col,
                                             <<Text(e.description), Number(e.amount)>>),
                   !.misc_row = @ + 1]
    ELSE IF r = "recurring" THEN
        [wb EXCEPT !.sheet = @ \o write_row(wb.recurring_row, recurring_col,
                                             <<Text(e.recurring_key), Number(e.amount)>>),
                   !.recurring_row = @ + 1]
    ELSE
        [wb EXCEPT !.sheet = @ \o write_row(wb.purchases_row, purchases_col,
                                             <<IsoDate(e.date), Text(e.category),
                                               Text(e.description), Number(e.amount)>>),
                   !.purchases_row = @ + 1]

\* whether the iteration hands a non-finite number to write_row
WritesNonFinite(e) == Route(e) \in {"misc", "recurring", "purchases"} /\ ~IsFinite(e.amount)

\* write_total with the range running to the row of the total itself
write_total_RangeToTotalRow(row, col, start_row, col_increase_amt) ==
    LET c == col + col_increase_amt
        total_cell == xl_rowcol_to_cell(row, c)
    IN  [writes |->
            <<WriteAt(row, col, Text("total")),
              IF row # start_row
              THEN WriteAt(row, c, SumRange(xl_rowcol_to_cell(start_row, c),
                                            xl_rowcol_to_cell(row, c)))
              ELSE WriteAt(row, c, Number(Fin(0)))>>,
         total_cell |-> total_cell]

\* write_total returning the cell of the label instead of the cell of the total
write_total_ReturnsLabelCell(row, col, start_row, col_increase_amt) ==
    LET c == col + col_increase_amt
    IN  [writes |->
            <<WriteAt(row, col, Text("total")),
              IF row # start_row
              THEN WriteAt(row, c, SumRange(xl_rowcol_to_cell(start_row, c),
                                            xl_rowcol_to_cell(row - 1, c)))
              ELSE WriteAt(row, c, Number(Fin(0)))>>,
         total_cell |-> xl_rowcol_to_cell(row, col)]

\* write_total (writer.py:106-115): the writes it makes and the cell it returns
write_total(row, col, start_row, col_increase_amt) ==
    LET c == col + col_increase_amt
        total_cell == xl_rowcol_to_cell(row, c)
    IN  [writes |->
            <<WriteAt(row, col, Text("total")),
              IF row # start_row
              THEN WriteAt(row, c, SumRange(xl_rowcol_to_cell(start_row, c),
                                            xl_rowcol_to_cell(row - 1, c)))
              ELSE WriteAt(row, c, Number(Fin(0)))>>,
         total_cell |-> total_cell]

\* populate after its loop (writer.py:97-124)
PopulateTotals(wb) ==
    LET rec == write_total(wb.recurring_row, recurring_col, starting_recurring_row, 1)
        misc == write_total(wb.misc_row, misc_col, starting_misc_row, 1)
        pur == write_total(wb.purchases_row, purchases_col, starting_purchases_row, 3)
    IN  [wb EXCEPT
            !.sheet = @ \o <<WriteCell(A1("B", 4), Text("")),
                             WriteCell(A1("C", 4), IncomeFormula(wb.total_income_fn))>>
                        \o rec.writes \o misc.writes \o pur.writes
                        \o <<WriteCell(A1("E", 4), Minus(A1("C", 4), A1("F", 4))),
                             WriteCell(A1("F", 4), SumOf(misc.total_cell, pur.total_cell))>>,
            !.closed = TRUE]

----------------------------------------------------------------------------
(* Section partitioner.  writer.py has no _sectioned_expenses; it is        *)
(* modelled from section 4.4 of the specification and from                  *)
(* tests/test_writer_sections.py.  A section holds the positions of its     *)
(* records in the input list.                                               *)

SectionNames == <<"Regular", "Income", "Miscellaneous", "Recurring">>

SectionPredicate(name, e) ==
    IF name = "Regular" THEN ~e.is_income /\ ~e.is_misc /\ ~Truthy(e.recurring_key)
    ELSE IF name = "Income" THEN e.is_income
    ELSE IF name = "Miscellaneous" THEN e.is_misc
    ELSE Truthy(e.recurring_key)

\* every section the record matches
SectionsFor_EveryMatch(e) ==
    {j \in DOMAIN SectionNames : SectionPredicate(SectionNames[j], e)}

\* the sections the record at position i is appended to: the first it matches
SectionsFor(e) ==
    LET hits == {j \in DOMAIN SectionNames : SectionPredicate(SectionNames[j], e)} IN
    {j \in hits : \A k \in hits : j <= k}

_sectioned_expenses(exps) ==
    [j \in DOMAIN SectionNames |->
        [name |-> SectionNames[j],
         records |-> SelectSeq([i \in 1..Len(exps) |-> i], LAMBDA i : j \in SectionsFor(exps[i]))]]

----------------------------------------------------------------------------
(* Inputs *)

Desc == <<"d1", "d2", "d3", "d4">>

GoodDate == [sep |-> "/", a |-> 9, b |-> 1, c |-> 2025]
IsoGoodDate == [sep |-> "-", a |-> 2025, b |-> 9, c |-> 2]
BadDate == [sep |-> "/", a |-> 13, b |-> 1, c |-> 2025]

\* the cells of the rows a CSV file of the model can hold
SampleCells ==
    { [Date |-> GoodDate, Amount |-> <<"3", "0">>],
      [Date |-> IsoGoodDate, Amount |-> <<"(", "3", "0", ".", "0", "0", ")">>],
      [Date |-> GoodDate, Amount |-> <<"n", "a", "n">>],
      [Date |-> GoodDate, Amount |-> <<"x">>],
      [Date |-> BadDate, Amount |-> <<"3", "0">>] }

RowLists == UNION {[1..n -> SampleCells] : n \in 0..MaxRecords}

\* the k-th data row overall is described Desc[k]
Labelled(cells, offset) ==
    [i \in 1..Len(cells) |->
        [Date |-> cells[i].Date, Description |-> Desc[offset + i], Amount |-> cells[i].Amount]]

OneFileSets == {<<Labelled(f, 0)>> : f \in RowLists}

TwoFileSets ==
    {<<Labelled(f, 0), Labelled(g, Len(f))>> :
        <<f, g>> \in {p \in RowLists \X RowLists :
                        /\ Len(p[1]) = 1
                        /\ Len(p[2]) >= 1
                        /\ Len(p[1]) + Len(p[2]) <= MaxRecords}}

\* one-row files with the other spellings of an amount
ProbeCells ==
    { [Date |-> GoodDate, Amount |-> a] :
        a \in { <<"1", ",", "2", "3", "4", ".", "5", "6">>,
                <<"-", "5", "0", ".", "0", "0">>,
                <<"(", "1", ",", "0", "0", "0", ")">>,
                <<>>,
                <<"(", ")">>,
                <<"(", "-", "5", "0", ")">>,
                <<"(", "5", "0">>,
                <<"i", "n", "f">>,
                <<"-", "I", "n", "f", "i", "n", "i", "t", "y">>,
                <<"(", "n", "a", "n", ")">>,
                <<"1", ".", "2", ".", "3">> } }

ProbeFileSets == {<<Labelled(<<c>>, 0)>> : c \in ProbeCells}

JNum(n) == [kind |-> "fin", val |-> n]
JText == [kind |-> "text", val |-> 0]

Json(has_c, c_list, cats, has_r, r_dict, pairs) ==
    [given |-> TRUE, has_categories |-> has_c, categories_is_list |-> c_list,
     categories |-> cats, has_recurring |-> has_r, recurring_is_dict |-> r_dict,
     recurring |-> pairs]

NoConfig == [Json(FALSE, FALSE, <<>>, FALSE, FALSE, <<>>) EXCEPT !.given = FALSE]

RawConfigs ==
    { NoConfig,
      Json(TRUE, TRUE, <<"Groceries", " Recurring ", "", "   ">>, TRUE, TRUE,
           <<[key |-> "Rent", value |-> JNum(30000)]>>),
      Json(TRUE, TRUE, <<"Groceries", "income">>, FALSE, FALSE, <<>>),
      Json(TRUE, FALSE, <<>>, FALSE, FALSE, <<>>),
      Json(FALSE, FALSE, <<>>, TRUE, FALSE, <<>>),
      Json(FALSE, FALSE, <<>>, TRUE, TRUE, <<[key |-> "Rent", value |-> JText]>>),
      Json(FALSE, FALSE, <<>>, TRUE, TRUE, <<[key |-> "", value |-> JNum(5)]>>) }

\* the command lines cli() is entered with: without --yes every
\* configuration with every set of files, with --yes no configuration and
\* one file, among them the one-row files of ProbeCells
CommandLines ==
    { [yes |-> FALSE, config |-> c, files |-> f] :
        c \in RawConfigs, f \in {<<>>} \cup OneFileSets \cup TwoFileSets }
    \cup { [yes |-> TRUE, config |-> NoConfig, files |-> f] :
                f \in OneFileSets \cup ProbeFileSets }

\* what the user can type at the category prompt and at the recurring prompt
CategoryInputs == {"INCOME", " payment ", "Miscellaneous", "groceries", "invalid", ""}
KeyInputs == {"", "   ", " Rent "}

\* records a caller of the library can hold: every combination of the flags
\* and of a key, and the amounts around the thresholds of the validations
ApiDate == [y |-> 2025, m |-> 5, d |-> 1]

ApiRecord(amount, inc, misc, pay, key) ==
    [ExpenseRecord(ApiDate, "", amount, NoneVal) EXCEPT
        !.category = "Housing", !.is_income = inc, !.is_misc = misc,
        !.is_payment = pay, !.recurring_key = key]

SampleRecords ==
    { ApiRecord(Fin(30000), i, m, p, k) :
        i \in BOOLEAN, m \in BOOLEAN, p \in BOOLEAN, k \in {NoneVal, "Rent"} }
    \cup { ApiRecord(a, TRUE, FALSE, FALSE, NoneVal) : a \in {Fin(-30000), Fin(0), NaN} }
    \cup { ApiRecord(a, FALSE, FALSE, FALSE, "Rent") : a \in {Fin(29995), Fin(29994)} }
    \cup { ApiRecord(Fin(30000), FALSE, FALSE, FALSE, k) : k \in {"rent", ""} }

\* a list of sample records, the i-th described Desc[i]
ApiExpenseList(l) == [i \in DOMAIN l |-> [l[i] EXCEPT !.description = Desc[i]]]

ApiConfig ==
    BudgetSheetConfig(<<"Groceries">>, ("Rent" :> Fin(30000)) @@ ("Gym" :> Fin(5)))

NoReport == [satisfied |-> EmptyMap, missing |-> EmptyMap]

Untouched == [written |-> FALSE, sheet |-> <<>>]

----------------------------------------------------------------------------
(* Initial states *)

InitCommon ==
    /\ idx = 0
    /\ rejected = 0
    /\ replies = <<>>
    /\ report = NoReport
    /\ sections = <<>>
    /\ verdict = "none"
    /\ workbook = ClosedBook
    /\ file = Untouched
    /\ history = <<>>

\* cli() is entered with its command line parsed
InitCli ==
    /\ entry = "cli"
    /\ pc = "cli"
    /\ \E line \in CommandLines :
        /\ yes = line.yes
        /\ raw_config = line.config
        /\ csv_files = line.files
    /\ config = BudgetSheetConfig(<<>>, EmptyMap)
    /\ expenses = <<>>
    /\ InitCommon

\* a caller of the library holds a session of its own making
InitApi ==
    /\ entry = "api"
    /\ pc = "session"
    /\ yes = FALSE
    /\ raw_config = NoConfig
    /\ csv_files = <<>>
    /\ config = ApiConfig
    /\ \E n \in 0..MaxApiRecords : \E l \in [1..n -> SampleRecords] :
            expenses = ApiExpenseList(l)
    /\ InitCommon

Init == InitCli \/ InitApi

----------------------------------------------------------------------------
(* cli() (cli.py:208-246) *)

Bool(b) == IF b THEN "True" ELSE "False"

\* cli.py:217-228: the usage check, _load_config and the configuration
CliConfigure ==
    /\ pc = "cli"
    /\ LET r == _load_config(raw_config) IN
       IF csv_files = <<>> THEN
            /\ pc' = "usage_error"
            /\ UNCHANGED config
       ELSE IF ~r.ok THEN
            /\ pc' = "config_error"
            /\ UNCHANGED config
       ELSE
            /\ pc' = "confirm"
            /\ config' = BudgetSheetConfig(r.categories, r.recurring)
    /\ UNCHANGED <<yes, raw_config, csv_files, expenses, idx, rejected, replies,
                   report, sections, verdict, workbook, file, entry, history>>

\* cli.py:230-231: click.confirm unless --yes; answer is the user's reply
ConfirmStep(answer) ==
    IF yes \/ answer
    THEN pc' = "load" /\ history' = Append(history, "confirm")
    ELSE pc' = "aborted" /\ UNCHANGED history

CliConfirm ==
    /\ pc = "confirm"
    /\ \E answer \in BOOLEAN : ConfirmStep(answer)
    /\ UNCHANGED <<yes, raw_config, csv_files, config, expenses, idx, rejected,
                   replies, report, sections, verdict, workbook, file, entry>>

\* the position after record i of n has been classified
AfterRecord(i, n) == IF i >= n THEN "check_recurring" ELSE "category"

\* cli.py:233-234: the session and load_transactions
CliLoad ==
    /\ pc = "load"
    /\ LET r == load_transactions(csv_files, <<>>) IN
        /\ expenses' = r.expenses
        /\ IF r.ok
           THEN /\ pc' = AfterRecord(0, Len(r.expenses))
                /\ history' = IF Len(r.expenses) = 0
                              THEN history \o <<"load", "classify">>
                              ELSE Append(history, "load")
           ELSE /\ pc' = "load_error"
                /\ UNCHANGED history
    /\ idx' = 1
    /\ UNCHANGED <<yes, raw_config, csv_files, config, rejected, replies, report,
                   sections, verdict, workbook, file, entry>>

\* cli.py:141 with a refused input: _prompt_category asks again
CliCategoryRefused ==
    /\ pc = "category"
    /\ rejected < MaxRetries
    /\ \E typed \in CategoryInputs :
        /\ _prompt_category(config.categories, typed) = NoneVal
        /\ rejected' = rejected + 1
    /\ UNCHANGED <<pc, yes, raw_config, csv_files, config, expenses, idx, replies,
                   report, sections, verdict, workbook, file, entry, history>>

\* cli.py:141-147: _prompt_category returns and the record gets its category
\* and its flags
CliCategoryAccepted ==
    /\ pc = "category"
    /\ \E typed \in CategoryInputs :
        LET category == _prompt_category(config.categories, typed) IN
        /\ category # NoneVal
        /\ expenses' = [expenses EXCEPT ![idx] = SetCategoryAndFlags(@, category)]
    /\ pc' = "recurring_key"
    /\ rejected' = 0
    /\ UNCHANGED <<yes, raw_config, csv_files, config, idx, replies, report,
                   sections, verdict, workbook, file, entry, history>>

\* cli.py:149-151: the recurring key prompt ends the iteration
CliRecurringKey ==
    /\ pc = "recurring_key"
    /\ \E typed \in KeyInputs :
        expenses' = [expenses EXCEPT ![idx] = SetRecurringKey(@, typed)]
    /\ idx' = idx + 1
    /\ pc' = AfterRecord(idx, Len(expenses))
    /\ history' = IF idx >= Len(expenses) THEN Append(history, "classify") ELSE history
    /\ UNCHANGED <<yes, raw_config, csv_files, config, rejected, replies, report,
                   sections, verdict, workbook, file, entry>>

\* the effect of _check_recurring_expectations on the bookkeeping variables
RecurringCheck(answer, next) ==
    LET r == _check_recurring_expectations(expenses, config.recurring_expenses, answer) IN
    /\ replies' = IF r.asks THEN Append(replies, answer) ELSE replies
    /\ report' = IF DOMAIN config.recurring_expenses = {} THEN report
                 ELSE build_recurring_report(expenses, config.recurring_expenses)
    /\ verdict' = Bool(r.result)
    /\ pc' = next[Bool(r.result)]

\* cli.py:237-239
CliCheckRecurring ==
    /\ pc = "check_recurring"
    /\ \E answer \in BOOLEAN :
        /\ RecurringCheck(answer, [True |-> "check_income", False |-> "aborted"])
        /\ history' = IF pc' = "aborted" THEN history ELSE Append(history, "recurring")
    /\ UNCHANGED <<yes, raw_config, csv_files, config, expenses, idx, rejected,
                   sections, workbook, file, entry>>

\* the gate without its Abort
IncomeGate_NoAbort(ok) == "write"

\* what cli() does with the value of _check_income_flags (cli.py:241-243)
IncomeGate(ok) == IF ok THEN "write" ELSE "aborted"

CliCheckIncome ==
    /\ pc = "check_income"
    /\ verdict' = Bool(_check_income_flags(expenses))
    /\ pc' = IncomeGate(_check_income_flags(expenses))
    /\ history' = IF pc' = "aborted" THEN history ELSE Append(history, "income")
    /\ UNCHANGED <<yes, raw_config, csv_files, config, expenses, idx, rejected,
                   replies, report, sections, workbook, file, entry>>

----------------------------------------------------------------------------
(* write_budget_sheet (api.py:153-158) and populate (writer.py:46-124) *)

\* the writer is constructed and populate runs up to its loop
WriteBegin ==
    /\ pc = "write"
    /\ workbook' = PopulateStart
    /\ idx' = 1
    /\ pc' = "populate"
    /\ UNCHANGED <<yes, raw_config, csv_files, config, expenses, rejected, replies,
                   report, sections, verdict, file, entry, history>>

\* one iteration of the loop.  xlsxwriter refuses NaN and the infinities in
\* write_number unless the workbook was made with nan_inf_to_errors; the
\* library is not part of the sources, so both outcomes are allowed.
PopulateStep ==
    /\ pc = "populate"
    /\ idx <= Len(expenses)
    /\ \E raises \in (IF WritesNonFinite(expenses[idx]) THEN BOOLEAN ELSE {FALSE}) :
        IF raises
        THEN pc' = "write_error" /\ UNCHANGED <<workbook, idx>>
        ELSE /\ workbook' = PopulateRecord(workbook, expenses[idx])
             /\ idx' = idx + 1
             /\ pc' = pc
    /\ UNCHANGED <<yes, raw_config, csv_files, config, expenses, rejected, replies,
                   report, sections, verdict, file, entry, history>>

\* the totals, the summary formulas and workbook.close()
PopulateFinish ==
    /\ pc = "populate"
    /\ idx > Len(expenses)
    /\ workbook' = PopulateTotals(workbook)
    /\ file' = [written |-> TRUE, sheet |-> workbook'.sheet]
    /\ pc' = "done"
    /\ history' = Append(history, "write")
    /\ UNCHANGED <<yes, raw_config, csv_files, config, expenses, idx, rejected,
                   replies, report, sections, verdict, entry>>

----------------------------------------------------------------------------
(* Calls a holder of a session makes on the library and on cli.py *)

ApiBuildReport ==
    /\ pc = "session"
    /\ report' = build_recurring_report(expenses, config.recurring_expenses)
    /\ pc' = "reported"
    /\ UNCHANGED <<yes, raw_config, csv_files, config, expenses, idx, rejected,
                   replies, sections, verdict, workbook, file, entry, history>>

ApiCheckRecurring ==
    /\ pc = "session"
    /\ \E answer \in BOOLEAN :
        RecurringCheck(answer, [True |-> "recurring_checked", False |-> "recurring_checked"])
    /\ UNCHANGED <<yes, raw_config, csv_files, config, expenses, idx, rejected,
                   sections, workbook, file, entry, history>>

ApiCheckIncome ==
    /\ pc = "session"
    /\ verdict' = Bool(_check_income_flags(expenses))
    /\ pc' = "income_checked"
    /\ UNCHANGED <<yes, raw_config, csv_files, config, expenses, idx, rejected,
                   replies, report, sections, workbook, file, entry, history>>

ApiSections ==
    /\ pc = "session"
    /\ sections' = _sectioned_expenses(expenses)
    /\ pc' = "sectioned"
    /\ UNCHANGED <<yes, raw_config, csv_files, config, expenses, idx, rejected,
                   replies, report, verdict, workbook, file, entry, history>>

ApiWrite ==
    /\ pc = "session"
    /\ pc' = "write"
    /\ UNCHANGED <<yes, raw_config, csv_files, config, expenses, idx, rejected,
                   replies, report, sections, verdict, workbook, file, entry, history>>

Next ==
    \/ CliConfigure
    \/ CliConfirm
    \/ CliLoad
    \/ CliCategoryRefused
    \/ CliCategoryAccepted
    \/ CliRecurringKey
    \/ CliCheckRecurring
    \/ CliCheckIncome
    \/ WriteBegin
    \/ PopulateStep
    \/ PopulateFinish
    \/ ApiBuildReport
    \/ ApiCheckRecurring
    \/ ApiCheckIncome
    \/ ApiSections
    \/ ApiWrite

Spec == Init /\ [][Next]_vars

----------------------------------------------------------------------------
(* Properties *)

Classified(e) == e.category # NoneVal

CsvRowCount == IF csv_files = <<>> THEN 0
               ELSE IF Len(csv_files) = 1 THEN Len(csv_files[1])
               ELSE Len(csv_files[1]) + Len(csv_files[2])

PipelineSteps == <<"confirm", "load", "classify", "recurring", "income">>

\* C1: in a run of cli() a workbook handle is opened, and the file written,
\* only after the confirmation, the load of every CSV row, the classification
\* of every record, a true recurring check and a true income check, in that
\* order; a run that ended at the confirmation, at a validation or in the load
\* (or before them) has opened no handle and written nothing.
C1_WriteOnlyAfterPipeline ==
    entry = "cli" =>
        /\ (workbook.open \/ file.written) =>
              /\ Len(history) >= 5
              /\ SubSeq(history, 1, 5) = PipelineSteps
              /\ Len(expenses) = CsvRowCount
              /\ \A i \in DOMAIN expenses : Classified(expenses[i])
              /\ IncomeIssues(expenses) = {}
              /\ (replies = <<>> \/ replies = <<TRUE>>)
        /\ pc \in {"usage_error", "config_error", "aborted", "load_error"} =>
              ~workbook.open /\ ~file.written

C1_Witness ==
    /\ entry = "cli"
    /\ pc = "done"
    /\ file.written
    /\ ~yes
    /\ replies = <<TRUE>>
    /\ Len(expenses) >= 2
    /\ Len(csv_files) = 2

\* the amounts of the records that count towards key k, in input order
CountingAmounts(k) ==
    LET hit == SelectSeq(expenses, LAMBDA e : e.recurring_key = k /\ ~e.is_payment)
    IN  [i \in 1..Len(hit) |-> hit[i].amount]

RECURSIVE SumAmounts(_)
SumAmounts(amounts) ==
    IF amounts = <<>> THEN Fin(0)
    ELSE FAdd(SumAmounts(SubSeq(amounts, 1, Len(amounts) - 1)), amounts[Len(amounts)])

\* C2: _check_income_flags returns true exactly when every record flagged as
\* income has an amount below zero, and no sheet is written while a record
\* flagged as income has an amount of zero or more.
C2_IncomeValidation ==
    /\ (pc = "income_checked" \/ (entry = "cli" /\ pc = "write")
          \/ (entry = "cli" /\ pc = "aborted" /\ Len(history) = 4)) =>
          (verdict = "True" <=>
              \A i \in DOMAIN expenses :
                  expenses[i].is_income => FLt(expenses[i].amount, Fin(0)))
    /\ (entry = "cli" /\ (workbook.open \/ file.written)) =>
          ~ \E i \in DOMAIN expenses :
                expenses[i].is_income /\ FGe(expenses[i].amount, Fin(0))

\* C3: build_recurring_report gives, for every configured key, satisfied =
\* the sum of the amounts of the records with that key that are not payments,
\* and missing = expected - satisfied; with no such record satisfied is 0 and
\* missing is the expected amount.
C3_RecurringReport ==
    (pc = "reported" \/ report # NoReport) =>
        /\ DOMAIN report.satisfied = DOMAIN config.recurring_expenses
        /\ DOMAIN report.missing = DOMAIN config.recurring_expenses
        /\ \A k \in DOMAIN config.recurring_expenses :
            /\ report.satisfied[k] = SumAmounts(CountingAmounts(k))
            /\ report.missing[k] = FSub(config.recurring_expenses[k], report.satisfied[k])
            /\ CountingAmounts(k) = <<>> =>
                  /\ report.satisfied[k] = Fin(0)
                  /\ report.missing[k] = config.recurring_expenses[k]

C3_Witness ==
    /\ pc = "reported"
    /\ "Rent" \in DOMAIN config.recurring_expenses
    /\ "Gym" \in DOMAIN config.recurring_expenses
    /\ \E i, j \in DOMAIN expenses :
        /\ expenses[i].recurring_key = "Rent" /\ expenses[i].is_payment
        /\ expenses[j].recurring_key = "Rent" /\ ~expenses[j].is_payment
    /\ report.satisfied["Rent"] = Fin(30000)
    /\ report.missing["Gym"] = Fin(5)

\* the state right after _check_recurring_expectations returned
RecurringJustChecked ==
    \/ pc = "recurring_checked"
    \/ entry = "cli" /\ pc = "check_income"
    \/ entry = "cli" /\ pc = "aborted" /\ Len(history) = 3

\* the configured keys whose missing amount exceeds 0.005
MissingKeys ==
    {k \in DOMAIN config.recurring_expenses :
        FGt(FSub(config.recurring_expenses[k], SumAmounts(CountingAmounts(k))), Fin(5))}

C5_ClassificationFlags ==
    entry = "cli" =>
        \A i \in DOMAIN expenses :
            LET e == expenses[i] IN
            IF Classified(e)
            THEN /\ e.is_income <=> Lower(e.category) = "income"
                 /\ e.is_payment <=> e.category = "Payment"
                 /\ e.is_misc <=> e.category = "Miscellaneous"
                 /\ Cardinality({f \in {"i", "m", "p"} :
                        \/ f = "i" /\ e.is_income
                        \/ f = "m" /\ e.is_misc
                        \/ f = "p" /\ e.is_payment}) <= 1
            ELSE ~e.is_income /\ ~e.is_misc /\ ~e.is_payment

C5_Witness ==
    /\ entry = "cli"
    /\ pc = "check_recurring"
    /\ \E i, j \in DOMAIN expenses :
        /\ expenses[i].category = "Income" /\ expenses[i].is_income
        /\ expenses[j].category = "Payment" /\ expenses[j].is_payment

\* C6: a recurring key is stored on a record only if it matches, whatever
\* the case, one of the configured recurring keys.
C6_OnlyConfiguredKeys ==
    entry = "cli" =>
        \A i \in DOMAIN expenses :
            expenses[i].recurring_key # NoneVal =>
                \E k \in DOMAIN config.recurring_expenses :
                    Lower(k) = Lower(expenses[i].recurring_key)

\* C7: a record classified with a category other than Income, Payment,
\* Miscellaneous or Recurring has its three flags false and no recurring key
\* once its classification is over.
C7_RegularPurchase ==
    entry = "cli" =>
        \A i \in DOMAIN expenses :
            (Classified(expenses[i])
             /\ Lower(expenses[i].category) \notin {"income", "payment", "miscellaneous", "recurring"}) =>
                /\ ~expenses[i].is_income
                /\ ~expenses[i].is_misc
                /\ ~expenses[i].is_payment
                /\ expenses[i].recurring_key = NoneVal

\* C8: the category of a classified record is an element of the reserved and
\* configured categories, in the list's spelling; while an input is refused
\* the record at hand has no category.
C8_CategoryClosedSet ==
    entry = "cli" =>
        /\ \A i \in DOMAIN expenses :
              Classified(expenses[i]) =>
                  expenses[i].category \in Range(RESERVED_CATEGORIES) \cup Range(config.categories)
        /\ rejected > 0 => pc = "category" /\ ~Classified(expenses[idx])

C8_Witness ==
    /\ entry = "cli"
    /\ \E i, j \in DOMAIN expenses :
        /\ expenses[i].category = "Groceries"
        /\ expenses[j].category = "Income"

\* the positions (section, place) at which record i occurs
Occurrences(i) ==
    {<<j, p>> \in (DOMAIN sections) \X (1..Len(expenses)) :
        p <= Len(sections[j].records) /\ sections[j].records[p] = i}

C10_PaymentsExcluded ==
    [][(pc = "populate" /\ idx <= Len(expenses) /\ expenses[idx].is_payment) =>
            /\ workbook' = workbook
            /\ idx' = idx + 1
            /\ pc' = "populate"]_vars

C10_Witness ==
    /\ pc = "populate"
    /\ idx > 1
    /\ expenses[idx - 1].is_payment
    /\ expenses[idx - 1].is_income
    /\ expenses[idx - 1].is_misc
    /\ Truthy(expenses[idx - 1].recurring_key)

----------------------------------------------------------------------------
(* The sheet seen from outside populate: the three itemized regions, the   *)
(* records that belong to each, and what a cell holds.                     *)

Regions == {"recurring", "misc", "purchases"}

\* the zero-based row under the header of the region
Anchor(r) ==
    IF r = "recurring" THEN starting_recurring_row
    ELSE IF r = "misc" THEN starting_misc_row
    ELSE starting_purchases_row

\* the zero-based first and last column of the region: B-C, E-F, I-L
FirstCol(r) == IF r = "recurring" THEN 1 ELSE IF r = "misc" THEN 4 ELSE 8
AmountCol(r) == IF r = "recurring" THEN 2 ELSE IF r = "misc" THEN 5 ELSE 11

RowCounter(r) ==
    IF r = "recurring" THEN workbook.recurring_row
    ELSE IF r = "misc" THEN workbook.misc_row
    ELSE workbook.purchases_row

\* the region a record is itemized in, if any
Belongs(r, e) ==
    /\ ~e.is_payment
    /\ ~e.is_income
    /\ IF r = "misc" THEN e.is_misc
       ELSE IF r = "recurring" THEN ~e.is_misc /\ Truthy(e.recurring_key)
       ELSE ~e.is_misc /\ ~Truthy(e.recurring_key)

\* the number of records the loop of populate has been through
Processed == IF pc = "done" THEN Len(expenses) ELSE idx - 1

\* the records among the first k that belong to the region, in input order
Itemized(r, k) == SelectSeq(SubSeq(expenses, 1, k), LAMBDA e : Belongs(r, e))

\* every content written at a cell, in the order of the writes
WritesAt(sheet, row, col) ==
    LET hits == SelectSeq(sheet, LAMBDA w : w.row = row /\ w.col = col)
    IN  [i \in 1..Len(hits) |-> hits[i].v]

WritesAtCell(sheet, cell) ==
    LET rc == xl_cell_to_rowcol(cell) IN WritesAt(sheet, rc.row, rc.col)

\* the cell a region's total is expected in, for n itemized records
TotalCell(r, n) == xl_rowcol_to_cell(Anchor(r) + n, AmountCol(r))

InPopulate == pc \in {"populate", "write_error", "done"}

\* C11: in the written sheet each itemized region with n records has the
\* text "total" at row anchor+n in its first column and, in its amount column
\* on that row, SUM over the amount cells of rows anchor..anchor+n-1 when
\* n > 0 and the number 0 when n = 0; the rows anchor..anchor+n-1 of the
\* amount column are the data rows.
C11_RegionTotals ==
    pc = "done" =>
        \A r \in Regions :
            LET n == Len(Itemized(r, Len(expenses)))
                a == Anchor(r)
            IN  /\ WritesAt(file.sheet, a + n, FirstCol(r)) = <<Text("total")>>
                /\ WritesAt(file.sheet, a + n, AmountCol(r)) =
                      IF n > 0
                      THEN <<SumRange(xl_rowcol_to_cell(a, AmountCol(r)),
                                      xl_rowcol_to_cell(a + n - 1, AmountCol(r)))>>
                      ELSE <<Number(Fin(0))>>
                /\ \A k \in 0..(n - 1) :
                    WritesAt(file.sheet, a + k, AmountCol(r))
                        = <<Number(Itemized(r, Len(expenses))[k + 1].amount)>>

C11_Witness ==
    /\ pc = "done"
    /\ Len(Itemized("misc", Len(expenses))) = 0
    /\ Len(Itemized("purchases", Len(expenses))) = 2
    /\ WritesAt(file.sheet, starting_purchases_row + 2, 11)
          = <<SumRange(A1("L", 5), A1("L", 6))>>
    /\ WritesAt(file.sheet, starting_misc_row, 5) = <<Number(Fin(0))>>

\* whether the content is what write_total puts in a total cell
IsTotal(v) == (v.t = "formula" /\ v.f = "SUM:") \/ v = Number(Fin(0))

\* C12: in the written sheet E4 holds the formula C4-F4 and F4 holds
\* SUM(m, p), where m and p are the cells at row anchor+n of the amount
\* columns of Miscellaneous and Purchases, each holding that region's total
\* next to its "total" label; C4 holds the income formula; the cell of the
\* Recurring total is neither m nor p.
C12_SummaryFormulas ==
    pc = "done" =>
        LET n(r) == Len(Itemized(r, Len(expenses)))
            m == TotalCell("misc", n("misc"))
            p == TotalCell("purchases", n("purchases"))
            labelled(r, cell) ==
                LET rc == xl_cell_to_rowcol(cell) IN
                /\ Len(WritesAtCell(file.sheet, cell)) = 1
                /\ IsTotal(WritesAtCell(file.sheet, cell)[1])
                /\ WritesAt(file.sheet, rc.row, FirstCol(r)) = <<Text("total")>>
        IN  /\ WritesAtCell(file.sheet, A1("E", 4)) = <<Minus(A1("C", 4), A1("F", 4))>>
            /\ WritesAtCell(file.sheet, A1("F", 4)) = <<SumOf(m, p)>>
            /\ labelled("misc", m)
            /\ labelled("purchases", p)
            /\ Len(WritesAtCell(file.sheet, A1("C", 4))) = 1
            /\ WritesAtCell(file.sheet, A1("C", 4))[1].f = "0+"
            /\ TotalCell("recurring", n("recurring")) \notin {m, p}

C12_Witness ==
    /\ pc = "done"
    /\ Len(Itemized("misc", Len(expenses))) = 1
    /\ Len(Itemized("recurring", Len(expenses))) = 1
    /\ WritesAtCell(file.sheet, A1("F", 4)) = <<SumOf(A1("F", 8), A1("L", 5))>>

\* the amounts of the non-payment income records among the first k
IncomeTerms(k) ==
    LET hit == SelectSeq(SubSeq(expenses, 1, k), LAMBDA e : e.is_income /\ ~e.is_payment)
    IN  [i \in 1..Len(hit) |-> hit[i].amount]

\* the writes made on the sheet at or below the anchor row of a region, in
\* its columns
RegionWrites(sheet, r) ==
    SelectSeq(sheet, LAMBDA w : /\ w.row >= Anchor(r)
                                /\ w.col >= FirstCol(r)
                                /\ w.col <= AmountCol(r))

\* the cells a data row takes in the region
RowWidth(r) == AmountCol(r) - FirstCol(r) + 1

\* C13: while populate runs the income formula is "=0" and one term per
\* non-payment income record passed so far, in input order, and the regions
\* hold rows only for the records that are neither payment nor income; the
\* written sheet has that formula, once, in C4.
C13_IncomeSummarized ==
    InPopulate =>
        /\ workbook.total_income_fn = IncomeTerms(Processed)
        /\ \A r \in Regions :
            Len(RegionWrites(workbook.sheet, r))
                = RowWidth(r) * Len(Itemized(r, Processed))
                  + (IF pc = "done" THEN 2 ELSE 0)
        /\ pc = "done" =>
            WritesAtCell(file.sheet, A1("C", 4)) = <<IncomeFormula(IncomeTerms(Len(expenses)))>>

C13_Witness ==
    /\ pc = "done"
    /\ Len(expenses) = 2
    /\ expenses[1].is_income /\ expenses[1].is_misc /\ ~expenses[1].is_payment
    /\ expenses[2].is_income /\ Truthy(expenses[2].recurring_key) /\ ~expenses[2].is_payment
    /\ WritesAtCell(file.sheet, A1("C", 4))
          = <<IncomeFormula(<<expenses[1].amount, expenses[2].amount>>)>>
    /\ \A r \in Regions : Len(RegionWrites(file.sheet, r)) = 2

\* the cells of the row of a record in its region, left to right
ExpectedRow(r, e) ==
    IF r = "misc" THEN <<Text(e.description), Number(e.amount)>>
    ELSE IF r = "recurring" THEN <<Text(e.recurring_key), Number(e.amount)>>
    ELSE <<IsoDate(e.date), Text(e.category), Text(e.description), Number(e.amount)>>

\* C14: at every step of populate, for each region, the row counter is the
\* anchor plus the number of records itemized so far, the k-th of them
\* (from 0) has its cells, written once, at row anchor+k, and nothing is
\* written below the last of these rows before the totals are.
C14_GrowingRegions ==
    InPopulate =>
        \A r \in Regions :
            LET recs == Itemized(r, Processed)
                n == Len(recs)
            IN  /\ RowCounter(r) = Anchor(r) + n
                /\ \A k \in 0..(n - 1) : \A j \in 1..RowWidth(r) :
                    WritesAt(workbook.sheet, Anchor(r) + k, FirstCol(r) + j - 1)
                        = <<ExpectedRow(r, recs[k + 1])[j]>>
                /\ \A i \in DOMAIN workbook.sheet :
                    LET w == workbook.sheet[i] IN
                    (w.col >= FirstCol(r) /\ w.col <= AmountCol(r) /\ w.row >= Anchor(r))
                        => w.row < Anchor(r) + n + (IF pc = "done" THEN 1 ELSE 0)

C14_Witness ==
    /\ pc = "populate"
    /\ idx = 3
    /\ Belongs("recurring", expenses[1])
    /\ Belongs("recurring", expenses[2])
    /\ workbook.recurring_row = starting_recurring_row + 2
    /\ WritesAt(workbook.sheet, 7, 1) = <<Text(expenses[2].recurring_key)>>
    /\ WritesAt(workbook.sheet, 7, 2) = <<Number(expenses[2].amount)>>

\* the rows of all the files, in file order and then row order
AllRows ==
    IF csv_files = <<>> THEN <<>>
    ELSE IF Len(csv_files) = 1 THEN csv_files[1]
    ELSE csv_files[1] \o csv_files[2]

RowParses(row) == _parse_date(row.Date).ok /\ _parse_amount(row.Amount).ok

Loaded == \E i \in DOMAIN history : history[i] = "load"

\* the part of C15 about a load that succeeds: every row parses and every
\* row gave one record, in file order and then row order
C15_LoadKeepsEveryRow ==
    (entry = "cli" /\ Loaded) =>
        /\ \A i \in DOMAIN AllRows : RowParses(AllRows[i])
        /\ Len(expenses) = Len(AllRows)
        /\ \A i \in DOMAIN expenses :
            /\ expenses[i].description = Strip(AllRows[i].Description)
            /\ expenses[i].date = _parse_date(AllRows[i].Date).val
            /\ expenses[i].amount = _parse_amount(AllRows[i].Amount).val
            /\ expenses[i].source_file = (IF i <= Len(csv_files[1]) THEN 1 ELSE 2)

\* the part of C15 about a load that fails: a row that does not parse makes
\* the load fail, and session.expenses then holds no record
C15_NoPartialResults ==
    entry = "cli" =>
        /\ (pc = "load_error") <=>
              (pc \notin {"cli", "usage_error", "config_error", "confirm", "aborted", "load"}
               /\ ~Loaded)
        /\ pc = "load_error" =>
              /\ \E i \in DOMAIN AllRows : ~RowParses(AllRows[i])
              /\ expenses = <<>>

\* C15: a load with a row whose date or amount does not parse fails and
\* leaves no record of that call in session.expenses, also none of the files
\* parsed before the failing one; a load that succeeds gives one record per
\* data row, in file order and then row order.
C15_FailFastLoad == C15_LoadKeepsEveryRow /\ C15_NoPartialResults

\* the failure itself, without the emptiness of session.expenses
C15_FailsOnBadRow ==
    entry = "cli" =>
        /\ (pc = "load_error") <=>
              (pc \notin {"cli", "usage_error", "config_error", "confirm", "aborted", "load"}
               /\ ~Loaded)
        /\ pc = "load_error" => \E i \in DOMAIN AllRows : ~RowParses(AllRows[i])
        /\ (pc = "load_error" /\ Len(csv_files) = 1) => expenses = <<>>

\* cli() has got past _load_config
ConfigLoaded == entry = "cli" /\ pc \notin {"cli", "usage_error", "config_error"}

\* the categories of the config file that _load_config keeps
RawCategories ==
    IF raw_config.given /\ raw_config.has_categories /\ raw_config.categories_is_list
    THEN StripTruthy(raw_config.categories)
    ELSE <<>>

\* a config naming one of the given names in lower case is refused, and the
\* categories of a loaded session avoid them
RejectsNames(names) ==
    /\ (entry = "cli" /\ pc # "cli" /\ csv_files # <<>>
        /\ \E i \in DOMAIN RawCategories : Lower(RawCategories[i]) \in names)
            => pc = "config_error"
    /\ ConfigLoaded =>
            \A i \in DOMAIN config.categories : Lower(config.categories[i]) \notin names

\* C16: a config whose categories hold, in any case, Income, Miscellaneous,
\* Payment or Recurring fails with a config error, and the custom categories
\* of a loaded session are case-insensitively disjoint from these four names.
C16_ReservedNamesRejected ==
    RejectsNames({"income", "miscellaneous", "payment", "recurring"})

\* the same for the three names of RESERVED_CATEGORIES
C16_ListedNamesRejected ==
    RejectsNames({"income", "miscellaneous", "payment"})

\* the amount the text stands for when it is read as the claim describes:
\* commas removed, an outer pair of parentheses negating an unsigned decimal,
\* otherwise an optionally signed decimal; ok = FALSE for anything else
ClaimedAmount(value) ==
    LET stripped == RemoveChar(value, ",")
        enclosed == stripped # <<>> /\ Head(stripped) = "(" /\ stripped[Len(stripped)] = ")"
        inner == SubSeq(stripped, 2, Len(stripped) - 1)
        signed == stripped # <<>> /\ Head(stripped) \in {"-", "+"}
        d == IF enclosed THEN UnsignedDecimal(inner)
             ELSE IF signed THEN UnsignedDecimal(Tail(stripped))
             ELSE UnsignedDecimal(stripped)
        negative == enclosed \/ (signed /\ Head(stripped) = "-")
    IN  IF ~d.ok THEN [ok |-> FALSE, val |-> NaN]
        ELSE [ok |-> TRUE, val |-> IF negative THEN FNeg(d.val) ELSE d.val]

\* C17: _parse_amount gives every amount cell of the input files the finite
\* number it stands for with commas removed and an outer pair of parentheses
\* read as a minus sign, and fails on every other cell; so every record of
\* a load that succeeded has a finite amount.
C17_AmountParsing ==
    (entry = "cli" /\ (Loaded \/ pc = "load_error")) =>
        /\ \A i \in DOMAIN AllRows :
            LET got == _parse_amount(AllRows[i].Amount)
                want == ClaimedAmount(AllRows[i].Amount)
            IN  got.ok = want.ok /\ (got.ok => got.val = want.val)
        /\ \A i \in DOMAIN expenses : IsFinite(expenses[i].amount)

\* the same for the cells that are not a spelling of a non-finite number
C17_FiniteSpellings ==
    (entry = "cli" /\ (Loaded \/ pc = "load_error")) =>
        /\ \A i \in DOMAIN AllRows :
            LET got == _parse_amount(AllRows[i].Amount)
                want == ClaimedAmount(AllRows[i].Amount)
            IN  \/ got.ok /\ ~IsFinite(got.val)
                \/ got.ok = want.ok /\ (got.ok => got.val = want.val)
        /\ \A i \in DOMAIN expenses :
            LET a == AllRows[i].Amount IN
            /\ a = <<"1", ",", "2", "3", "4", ".", "5", "6">> => expenses[i].amount = Fin(1234560)
            /\ a = <<"(", "3", "0", ".", "0", "0", ")">> => expenses[i].amount = Fin(-30000)
            /\ a = <<"(", "1", ",", "0", "0", "0", ")">> => expenses[i].amount = Fin(-1000000)
        /\ (\E i \in DOMAIN AllRows :
                AllRows[i].Amount \in {<<>>, <<"(", ")">>, <<"(", "-", "5", "0", ")">>,
                                       <<"(", "5", "0">>, <<"x">>, <<"1", ".", "2", ".", "3">>})
              => pc = "load_error"

CellOf(w) == <<w.row, w.col>>

\* the cells of the labels and headers: B3:C3, E3, F3, B6:C6, E6:F6, I3:L3
\* and I4..L4, zero-based
TemplateCells ==
    {<<2, c>> : c \in {1, 2, 4, 5, 8, 9, 10, 11}}
    \cup {<<5, c>> : c \in {1, 2, 4, 5}}
    \cup {<<3, c>> : c \in {8, 9, 10, 11}}

\* C4, E4 and F4, and B4 beside the income formula
SummaryCells == {<<3, 1>>, <<3, 2>>, <<3, 4>>, <<3, 5>>}

\* the positions in the sheet of the writes of data rows and total rows: all
\* those after the template but the two summary writes before the totals and
\* the two after them
RegionWriteIndexes ==
    LET t == Len(_apply_template)
        n == Len(workbook.sheet)
    IN  IF pc = "done"
        THEN ((t + 1)..n) \ {n - 9, n - 8, n - 1, n}
        ELSE (t + 1)..n

\* the region whose columns hold the column, or "none"
RegionOfCol(col) ==
    IF col \in 1..2 THEN "recurring"
    ELSE IF col \in 4..5 THEN "misc"
    ELSE IF col \in 8..11 THEN "purchases"
    ELSE "none"

\* C18: at every step of populate the template is on its cells, every write
\* of a data row or of a total row is in the columns of one region, outside
\* the template cells and the summary cells, the writes on the summary cells
\* are those of the summary, and no cell is written twice.
C18_LayoutDisjoint ==
    InPopulate =>
        /\ {CellOf(workbook.sheet[i]) : i \in 1..Len(_apply_template)} = TemplateCells
        /\ \A i \in RegionWriteIndexes :
            LET w == workbook.sheet[i] IN
            /\ RegionOfCol(w.col) # "none"
            /\ CellOf(w) \notin TemplateCells \cup SummaryCells
        /\ \A i \in (DOMAIN workbook.sheet) \ RegionWriteIndexes :
            CellOf(workbook.sheet[i]) \in TemplateCells \cup SummaryCells
        /\ Cardinality({CellOf(workbook.sheet[i]) : i \in DOMAIN workbook.sheet})
              = Len(workbook.sheet)

C18_Witness ==
    /\ pc = "done"
    /\ Len(Itemized("purchases", Len(expenses))) = 1
    /\ Len(Itemized("recurring", Len(expenses))) = 1
    /\ Len(file.sheet) = Len(_apply_template) + 4 + 2 + 10
    /\ \E i \in DOMAIN file.sheet : CellOf(file.sheet[i]) = <<4, 8>>
    /\ \E i \in DOMAIN file.sheet : CellOf(file.sheet[i]) = <<5, 11>>

====
